---- MODULE Spec2Model ----
(***************************************************************************)
(* Model of semantics/testhelpers.py: the semantic-analysis test driver    *)
(* do_semantic_analysis, the ExpressionTypeCollector listener and the      *)
(* pretty_types formatter.                                                 *)
(*                                                                         *)
(* Strings are sequences of code points, so that Python's str ordering     *)
(* and f-string formatting are computed rather than assumed.               *)
(***************************************************************************)
EXTENDS Integers, Sequences, FiniteSets, TLC

VARIABLES
    program,          \* the (source, start_rule_name) pair under analysis, with its analyser behaviour
    first_phase_only, \* the flag of the current call
    tree,             \* the parse tree of the current call: nodes in document order
    scope,            \* the `scope` attribute of the root node, or NoAttr
    errors,           \* the ErrorLog of the current call
    inferred_types,   \* the collector's inferred_types dictionary
    global_scope,     \* the local global_scope of do_semantic_analysis
    pc,               \* position inside do_semantic_analysis
    pos,              \* position of the running ParseTreeWalker in the traversal
    calls,            \* number of calls of do_semantic_analysis made so far
    returned,         \* what each finished call returned, in call order
    trace,            \* listener callbacks and driver steps of the current call, in order
    output            \* the string returned by pretty_types, or NoOutput

vars == <<program, first_phase_only, tree, scope, errors, inferred_types,
          global_scope, pc, pos, calls, returned, trace, output>>

----------------------------------------------------------------------------
(* Bounds *)

MaxNodes == 2
MaxCalls == 2
MaxEntries == 2

----------------------------------------------------------------------------
(* Values *)

\* Python's None: the value recorded for a node without a `type` attribute.
None == "None"

\* hasattr(ctx, name) is false.
NoAttr == "<no attribute>"

\* The type values the analyser writes into ctx.type.
Types == {"Int", "Bool"}

NoOutput == <<-1>>

\* Node classes as seen by the isinstance tests of the collector.
Kinds == {"ExprContext", "FuncCallStmtContext", "OtherContext"}

\* "a", "b", "ab" as code points: ctx.getText() results.
TreeTexts == {<<97>>, <<98>>, <<97, 98>>}

TreeLines == {1, 2}

----------------------------------------------------------------------------
(* Parse trees *)

RECURSIVE IsPrefixOf(_, _)
IsPrefixOf(s, t) ==
    IF s = <<>> THEN TRUE
    ELSE IF t = <<>> THEN FALSE
    ELSE Head(s) = Head(t) /\ IsPrefixOf(Tail(s), Tail(t))

RECURSIVE IsSubstring(_, _)
IsSubstring(s, t) ==
    IF IsPrefixOf(s, t) THEN TRUE
    ELSE IF t = <<>> THEN FALSE
    ELSE IsSubstring(s, Tail(t))

RECURSIVE Ancestors(_, _)
\* n and the nodes above it
Ancestors(t, n) ==
    IF n = 0 THEN {} ELSE {n} \cup Ancestors(t, t[n].parent)

\* A parse tree as the parser builds it: node 1 is the root, nodes are
\* numbered in document order, a child starts no earlier than its parent
\* and covers part of its parent's text.
IsParseTree(t) ==
    /\ Len(t) >= 1
    /\ t[1].parent = 0
    /\ \A n \in 2..Len(t) :
          /\ t[n].parent \in Ancestors(t, n - 1)
          /\ t[n].line >= t[n - 1].line
          /\ IsSubstring(t[n].text, t[t[n].parent].text)

RECURSIVE ChildrenFrom(_, _, _)
ChildrenFrom(t, n, c) ==
    IF c > Len(t) THEN <<>>
    ELSE IF t[c].parent = n THEN <<c>> \o ChildrenFrom(t, n, c + 1)
    ELSE ChildrenFrom(t, n, c + 1)

\* ctx.getChildren(): the children of n, left to right
Children(t, n) == ChildrenFrom(t, n, n + 1)

RECURSIVE WalkFrom(_, _)
RECURSIVE WalkAll(_, _)
\* ParseTreeWalker.walk: enterRule(n), walk each child, exitRule(n).
\* The result is the order of the exitEveryRule callbacks.
WalkFrom(t, n) == WalkAll(t, Children(t, n)) \o <<n>>
WalkAll(t, cs) ==
    IF cs = <<>> THEN <<>> ELSE WalkFrom(t, Head(cs)) \o WalkAll(t, Tail(cs))

Walk(t) == WalkFrom(t, 1)

Attributes == {NoAttr} \cup Types

\* The tree with nodes 1..n and the given attributes per node.
MakeTree(n, parent, kind, line, text, type) ==
    [i \in 1..n |-> [parent |-> parent[i], kind |-> kind[i], line |-> line[i],
                     text |-> text[i], type |-> type[i]]]

----------------------------------------------------------------------------
(* Dictionaries: a dict is the set of its items, a defaultdict(dict) is a  *)
(* function from its keys to dicts.                                        *)

Keys(d) == { e.key : e \in d }

\* d.setdefault(k, v) in place of d[k] = v: the first value is kept.
DictSet_KeepFirst(d, k, v) ==
    IF k \in Keys(d) THEN d ELSE d \cup { [key |-> k, value |-> v] }

\* d[k] = v
DictSet(d, k, v) == { e \in d : e.key # k } \cup { [key |-> k, value |-> v] }

\* d[k], for k in d
DictGet(d, k) == (CHOOSE e \in d : e.key = k).value

\* defaultdict(dict)
EmptyIndex == <<>>

\* defaultdict.__getitem__ with default_factory dict: a missing key is
\* inserted with an empty dict.
Vivify(idx, line) ==
    IF line \in DOMAIN idx THEN idx
    ELSE [l \in DOMAIN idx \cup {line} |-> IF l = line THEN {} ELSE idx[l]]

----------------------------------------------------------------------------
(* ExpressionTypeCollector *)

\* The second isinstance test left out.
IsCollected_ExprOnly(ctx) == ctx.kind = "ExprContext"

\* isinstance(ctx, ExprContext) or isinstance(ctx, FuncCallStmtContext)
IsCollected(ctx) ==
    ctx.kind = "ExprContext" \/ ctx.kind = "FuncCallStmtContext"

\* The hasattr test inverted.
InferredType_Inverted(ctx) == IF ctx.type = NoAttr THEN ctx.type ELSE None

\* ctx.type if hasattr(ctx, 'type') else None
InferredType(ctx) == IF ctx.type # NoAttr THEN ctx.type ELSE None

\* One dict shared by every line, as defaultdict(lambda: shared) would give.
Record_SharedDict(idx, line, source, inferred_type) ==
    LET viv == Vivify(idx, line)
    IN  [l \in DOMAIN viv |-> DictSet(viv[line], source, inferred_type)]

\* self.inferred_types[line][source] = inferred_type
Record(idx, line, source, inferred_type) ==
    LET viv == Vivify(idx, line)
    IN  [viv EXCEPT ![line] = DictSet(viv[line], source, inferred_type)]

exitEveryRule(idx, ctx) ==
    IF IsCollected(ctx)
    THEN Record(idx, ctx.line, ctx.text, InferredType(ctx))
    ELSE idx

\* One exitEveryRule callback of walker.walk(type_collector, tree).
CollectorVisit ==
    /\ pc = "collect"
    /\ LET order == Walk(tree)
           n == order[pos]
       IN  /\ inferred_types' = exitEveryRule(inferred_types, tree[n])
           /\ trace' = Append(trace, <<"collect", n>>)
           /\ IF pos < Len(order)
              THEN pos' = pos + 1 /\ pc' = "collect"
              ELSE pos' = 1 /\ pc' = "scope"
    /\ UNCHANGED <<program, first_phase_only, tree, scope, errors,
                   global_scope, calls, returned, output>>

NoProgram == [id |-> 0]

\* The collector run on its own over an arbitrary tree of at most MaxNodes
\* rule nodes, annotated by an analyser or not.
InitCollector ==
    /\ \E n \in 1..MaxNodes :
         \E parent \in [1..n -> 0..(n - 1)], line \in [1..n -> TreeLines],
            text \in [1..n -> TreeTexts] :
           /\ IsParseTree(MakeTree(n, parent, parent, line, text, parent))
           /\ \E kind \in [1..n -> Kinds], type \in [1..n -> Attributes] :
                tree = MakeTree(n, parent, kind, line, text, type)
    /\ program = NoProgram
    /\ first_phase_only = FALSE
    /\ scope = NoAttr
    /\ errors = <<>>
    /\ inferred_types = EmptyIndex
    /\ global_scope = None
    /\ pc = "collect"
    /\ pos = 1
    /\ calls = 0
    /\ returned = <<>>
    /\ trace = <<>>
    /\ output = NoOutput

NextCollector == CollectorVisit

SpecCollector == InitCollector /\ [][NextCollector]_vars

----------------------------------------------------------------------------
(* The analysed programs and the analyser *)

Node(parent, kind, line, text) ==
    [parent |-> parent, kind |-> kind, line |-> line, text |-> text, type |-> NoAttr]

\* Parse trees of three sources:
\*   1  the expression `a+a` parsed from the expression rule;
\*   2  a script calling `f()` on line 1 and again on line 2;
\*   3  a declaration without any expression.
SourceTrees ==
    <<  << Node(0, "ExprContext", 1, <<97, 43, 97>>),
           Node(1, "ExprContext", 1, <<97>>),
           Node(1, "ExprContext", 1, <<97>>) >>,
        << Node(0, "OtherContext", 1, <<102, 40, 41, 102, 40, 41>>),
           Node(1, "FuncCallStmtContext", 1, <<102, 40, 41>>),
           Node(1, "FuncCallStmtContext", 2, <<102, 40, 41>>) >>,
        << Node(0, "OtherContext", 1, <<120>>) >>  >>

\* A program is a source with its start rule, together with what the two
\* analysis phases do on its tree: the nodes at which each phase logs an
\* error, the type the second phase gives each node (or none), and
\* whether the first phase attaches a scope to the root.
ProgramsOf(id) ==
    LET t == SourceTrees[id]
        nodes == 1..Len(t)
    IN  [id : {id}, attaches : {id = 2}, declErrs : SUBSET nodes,
         typeErrs : SUBSET nodes, infer : [nodes -> Attributes]]

\* parse(source, start_rule_name, NimbleLexer, NimbleParser): a new tree
\* without annotations at every call.
parse(prog) == SourceTrees[prog.id]

\* errors.add(...)
AddError(log, phase, ctx) == Append(log, [phase |-> phase, line |-> ctx.line, text |-> ctx.text])

\* The callbacks of DefineScopesAndSymbols(errors) for one node.
DefineLog(prog, log, n, ctx) ==
    IF n \in prog.declErrs THEN AddError(log, "define", ctx) ELSE log

DefineScope(prog, sc, n) ==
    IF n = 1 /\ prog.attaches THEN "global scope" ELSE sc

\* The callbacks of InferTypesAndCheckConstraints(errors) for one node.
InferLog(prog, log, n, ctx) ==
    IF n \in prog.typeErrs THEN AddError(log, "infer", ctx) ELSE log

InferNode(prog, n, ctx) ==
    IF prog.infer[n] # NoAttr THEN [ctx EXCEPT !.type = prog.infer[n]] ELSE ctx

----------------------------------------------------------------------------
(* do_semantic_analysis *)

\* One log kept for every call.
ErrorLog_Shared(previous) == previous

\* errors = ErrorLog()
ErrorLog(previous) == <<>>

\* A second log made for the second phase.
SecondPhaseLog_Fresh(log) == <<>>

\* InferTypesAndCheckConstraints(errors): the log handed to the second phase
SecondPhaseLog(log) == log

\* The test of the flag inverted.
RunsSecondPhase_Inverted(fpo) == fpo

\* The second phase run whatever the flag.
RunsSecondPhase_Always(fpo) == TRUE

\* if not first_phase_only:
RunsSecondPhase(fpo) == ~fpo

\* The exception caught and the function carried on.
OnException_Swallowed(next) == next

\* No try statement: an exception raised by a phase leaves the function.
OnException(next) == "raised"

\* self.inferred_types = defaultdict(dict)
NewIndex(previous) == EmptyIndex

\* return errors, global_scope, type_collector.inferred_types
ReturnValue(fpo, log, gs, idx) ==
    [first_phase_only |-> fpo, errors |-> log, global_scope |-> gs,
     inferred_types |-> idx]

\* Where the walker goes after the callbacks at position pos.
Advance(order, here, next) ==
    IF pos < Len(order)
    THEN pos' = pos + 1 /\ pc' = here
    ELSE pos' = 1 /\ pc' = next

\* do_semantic_analysis(source, start_rule_name, first_phase_only) called:
\* the tree is parsed, the log and the walker are made.
Call(fpo) ==
    /\ pc = "idle"
    /\ calls < MaxCalls
    /\ calls' = calls + 1
    /\ first_phase_only' = fpo
    /\ tree' = parse(program)
    /\ scope' = NoAttr
    /\ errors' = ErrorLog(errors)
    /\ global_scope' = None
    /\ trace' = <<>>
    /\ pos' = 1
    /\ pc' = "define"
    /\ UNCHANGED <<program, inferred_types, returned, output>>

\* walker.walk(DefineScopesAndSymbols(errors), tree), one node
DefineVisit ==
    /\ pc = "define"
    /\ LET order == Walk(tree)
           n == order[pos]
       IN  /\ errors' = DefineLog(program, errors, n, tree[n])
           /\ scope' = DefineScope(program, scope, n)
           /\ trace' = Append(trace, <<"define", n>>)
           /\ Advance(order, "define", "flag")
    /\ UNCHANGED <<program, first_phase_only, tree, inferred_types,
                   global_scope, calls, returned, output>>

\* a callback of the first phase raises
DefineRaise ==
    /\ pc = "define"
    /\ pc' = OnException("flag")
    /\ pos' = 1
    /\ trace' = Append(trace, <<"raise", Walk(tree)[pos]>>)
    /\ UNCHANGED <<program, first_phase_only, tree, scope, errors,
                   inferred_types, global_scope, calls, returned, output>>

\* if not first_phase_only: ...
CheckFlag ==
    /\ pc = "flag"
    /\ IF RunsSecondPhase(first_phase_only)
       THEN pc' = "infer" /\ errors' = SecondPhaseLog(errors)
       ELSE pc' = "new_collector" /\ errors' = errors
    /\ UNCHANGED <<program, first_phase_only, tree, scope, inferred_types,
                   global_scope, pos, calls, returned, trace, output>>

\* walker.walk(InferTypesAndCheckConstraints(errors), tree), one node
InferVisit ==
    /\ pc = "infer"
    /\ LET order == Walk(tree)
           n == order[pos]
       IN  /\ errors' = InferLog(program, errors, n, tree[n])
           /\ tree' = [tree EXCEPT ![n] = InferNode(program, n, tree[n])]
           /\ trace' = Append(trace, <<"infer", n>>)
           /\ Advance(order, "infer", "new_collector")
    /\ UNCHANGED <<program, first_phase_only, scope, inferred_types,
                   global_scope, calls, returned, output>>

\* a callback of the second phase raises
InferRaise ==
    /\ pc = "infer"
    /\ pc' = OnException("new_collector")
    /\ pos' = 1
    /\ trace' = Append(trace, <<"raise", Walk(tree)[pos]>>)
    /\ UNCHANGED <<program, first_phase_only, tree, scope, errors,
                   inferred_types, global_scope, calls, returned, output>>

\* type_collector = ExpressionTypeCollector()
NewCollector ==
    /\ pc = "new_collector"
    /\ inferred_types' = NewIndex(inferred_types)
    /\ pc' = "collect"
    /\ UNCHANGED <<program, first_phase_only, tree, scope, errors,
                   global_scope, pos, calls, returned, trace, output>>

\* global_scope = tree.scope if hasattr(tree, 'scope') else None
ReadScope ==
    /\ pc = "scope"
    /\ global_scope' = IF scope # NoAttr THEN scope ELSE None
    /\ trace' = Append(trace, <<"scope", 1>>)
    /\ pc' = "return"
    /\ UNCHANGED <<program, first_phase_only, tree, scope, errors,
                   inferred_types, pos, calls, returned, output>>

\* return errors, global_scope, type_collector.inferred_types
Return ==
    /\ pc = "return"
    /\ returned' = Append(returned,
                          ReturnValue(first_phase_only, errors, global_scope, inferred_types))
    /\ pc' = "idle"
    /\ UNCHANGED <<program, first_phase_only, tree, scope, errors,
                   inferred_types, global_scope, pos, calls, trace, output>>

Init ==
    /\ \E id \in 1..Len(SourceTrees) : program \in ProgramsOf(id)
    /\ first_phase_only = FALSE
    /\ tree = <<>>
    /\ scope = NoAttr
    /\ errors = <<>>
    /\ inferred_types = EmptyIndex
    /\ global_scope = None
    /\ pc = "idle"
    /\ pos = 1
    /\ calls = 0
    /\ returned = <<>>
    /\ trace = <<>>
    /\ output = NoOutput

Next ==
    \/ \E fpo \in BOOLEAN : Call(fpo)
    \/ DefineVisit
    \/ DefineRaise
    \/ CheckFlag
    \/ InferVisit
    \/ InferRaise
    \/ NewCollector
    \/ CollectorVisit
    \/ ReadScope
    \/ Return

Spec == Init /\ [][Next]_vars

----------------------------------------------------------------------------
(* pretty_types *)

\* Line numbers and expression texts of the indexes handed to pretty_types:
\* "+", "a", "a+", "b" as code points.
PrettyLines == {2, 10}
PrettyTexts == {<<43>>, <<97>>, <<97, 43>>, <<98>>}

\* str(n) for a natural number n
RECURSIVE Decimal(_)
Decimal(n) ==
    IF n < 10 THEN <<48 + n>> ELSE Decimal(n \div 10) \o <<48 + (n % 10)>>

\* f'{value}' for the values of the index: str(None) is "None", a type
\* prints as its name.
Format(value) ==
    CASE value = None   -> <<78, 111, 110, 101>>
      [] value = "Int"  -> <<73, 110, 116>>
      [] value = "Bool" -> <<66, 111, 111, 108>>

\* s < t on Python strings: code point by code point, a proper prefix first
RECURSIVE StrLess(_, _)
StrLess(s, t) ==
    IF t = <<>> THEN FALSE
    ELSE IF s = <<>> THEN TRUE
    ELSE IF Head(s) # Head(t) THEN Head(s) < Head(t)
    ELSE StrLess(Tail(s), Tail(t))

\* sorted(S) for a set of integers
RECURSIVE SortedInts(_)
SortedInts(S) ==
    IF S = {} THEN <<>>
    ELSE LET m == CHOOSE x \in S : \A y \in S : x <= y
         IN  <<m>> \o SortedInts(S \ {m})

\* sorted(S) for a set of strings
RECURSIVE SortedStrs(_)
SortedStrs(S) ==
    IF S = {} THEN <<>>
    ELSE LET m == CHOOSE x \in S : \A y \in S : y = x \/ StrLess(x, y)
         IN  <<m>> \o SortedStrs(S \ {m})

\* sep.join(rows)
RECURSIVE Join(_, _)
Join(rows, sep) ==
    IF rows = <<>> THEN <<>>
    ELSE IF Len(rows) = 1 THEN rows[1]
    ELSE rows[1] \o sep \o Join(Tail(rows), sep)

\* 'line ', ':', '  ', ' : ' and '\n'
LinePrefix == <<108, 105, 110, 101, 32>>
Colon == <<58>>
Indent == <<32, 32>>
Separator == <<32, 58, 32>>
Newline == <<10>>

\* f'line {line_number}:'
Header(line_number) == LinePrefix \o Decimal(line_number) \o Colon

\* f'  {expr} : {inferred_types[line_number][expr]}'
Row(d, expr) == Indent \o expr \o Separator \o Format(DictGet(d, expr))

\* the rows appended for the expressions of one line, in order
RECURSIVE ExprRows(_, _)
ExprRows(d, exprs) ==
    IF exprs = <<>> THEN <<>>
    ELSE <<Row(d, Head(exprs))>> \o ExprRows(d, Tail(exprs))

\* the list `output` after the outer loop has run over line_numbers
RECURSIVE OutputRows(_, _)
OutputRows(idx, line_numbers) ==
    IF line_numbers = <<>> THEN <<>>
    ELSE LET line_number == Head(line_numbers)
             d == idx[line_number]
         IN  <<Header(line_number)>> \o ExprRows(d, SortedStrs(Keys(d)))
                 \o OutputRows(idx, Tail(line_numbers))

\* The keys sorted as text rather than as numbers.
SortedLineNumbers_AsText(idx) ==
    LET strs == SortedStrs({ Decimal(l) : l \in DOMAIN idx })
    IN  [i \in 1..Len(strs) |-> CHOOSE l \in DOMAIN idx : Decimal(l) = strs[i]]

\* sorted(inferred_types.keys())
SortedLineNumbers(idx) == SortedInts(DOMAIN idx)

pretty_types(idx) == Join(OutputRows(idx, SortedLineNumbers(idx)), Newline)

\* the index after the reads inferred_types[line_number] of the loops
RECURSIVE AfterReads(_, _)
AfterReads(idx, line_numbers) ==
    IF line_numbers = <<>> THEN idx
    ELSE AfterReads(Vivify(idx, Head(line_numbers)), Tail(line_numbers))

PrettyTypes ==
    /\ pc = "print"
    /\ output' = pretty_types(inferred_types)
    /\ inferred_types' = AfterReads(inferred_types, SortedLineNumbers(inferred_types))
    /\ pc' = "printed"
    /\ UNCHANGED <<program, first_phase_only, tree, scope, errors,
                   global_scope, pos, calls, returned, trace>>

\* The dicts of at most MaxEntries items.
IsDict(d) ==
    /\ Cardinality(d) <= MaxEntries
    /\ \A e, f \in d : e.key = f.key => e = f

Dicts == { d \in SUBSET [key : PrettyTexts, value : Types \cup {None}] : IsDict(d) }

\* pretty_types called on an arbitrary index; a defaultdict may hold a
\* line whose dict is empty.
InitPretty ==
    /\ \E lines \in SUBSET PrettyLines :
         \E idx \in [lines -> Dicts] :
           /\ inferred_types = idx
    /\ program = NoProgram
    /\ first_phase_only = FALSE
    /\ tree = <<>>
    /\ scope = NoAttr
    /\ errors = <<>>
    /\ global_scope = None
    /\ pc = "print"
    /\ pos = 1
    /\ calls = 0
    /\ returned = <<>>
    /\ trace = <<>>
    /\ output = NoOutput

NextPretty == PrettyTypes

SpecPretty == InitPretty /\ [][NextPretty]_vars

----------------------------------------------------------------------------
(* Properties of the collector *)

Range(seq) == { seq[i] : i \in 1..Len(seq) }

\* The nodes the collector has been called back for so far.
Collected == { e[2] : e \in { v \in Range(trace) : v[1] = "collect" } }

\* An expression node or a function-call statement node.
Included(nd) == nd.kind \in {"ExprContext", "FuncCallStmtContext"}

SameKey(a, b) == a.line = b.line /\ a.text = b.text

\* The items of the index stored at [line][text].
EntriesAt(idx, line, text) ==
    IF line \in DOMAIN idx THEN { e \in idx[line] : e.key = text } ELSE {}

\* What a node's annotation reads as: its type, or the no-type marker.
TypeOrMarker(nd) == IF nd.type \in Types THEN nd.type ELSE None

\* In a depth-first traversal the collector is called back for n before m:
\* n lies below m, or n lies wholly to the left of m.
ExitsBefore(t, n, m) ==
    /\ n # m
    /\ \/ m \in Ancestors(t, n)
       \/ n \notin Ancestors(t, m) /\ n < m

\* C3: the index has an entry at [line][text] exactly when a visited node
\* that is an expression or a function-call statement starts on that line
\* and renders as that text; no line key is without entries, so a tree
\* without such nodes yields the empty index.
C3_EntriesAreIncludedNodes ==
    /\ \A l \in DOMAIN inferred_types : inferred_types[l] # {}
    /\ \A l \in DOMAIN inferred_types : \A e \in inferred_types[l] :
          \E n \in Collected :
              Included(tree[n]) /\ tree[n].line = l /\ tree[n].text = e.key
    /\ \A n \in Collected :
          Included(tree[n]) =>
              EntriesAt(inferred_types, tree[n].line, tree[n].text) # {}
    /\ (\A n \in Collected : ~Included(tree[n])) => DOMAIN inferred_types = {}

C3_Witness ==
    /\ pc = "scope"
    /\ calls = 0
    /\ \E n, m \in 1..Len(tree) : Included(tree[n]) /\ ~Included(tree[m])
    /\ DOMAIN inferred_types # {}

\* C4: an included node whose (line, text) no other included node shares
\* has exactly one entry, holding its type annotation when present and
\* the no-type marker otherwise; the marker is no type value.
C4_SingleNodeEntry ==
    /\ None \notin Types
    /\ \A n \in Collected :
          (/\ Included(tree[n])
           /\ \A m \in 1..Len(tree) :
                 m # n /\ Included(tree[m]) => ~SameKey(tree[m], tree[n]))
          => EntriesAt(inferred_types, tree[n].line, tree[n].text)
                = { [key |-> tree[n].text, value |-> TypeOrMarker(tree[n])] }

C4_Witness ==
    /\ pc = "scope"
    /\ calls = 0
    /\ \E n, m \in 1..Len(tree) :
          /\ Included(tree[n]) /\ tree[n].type \in Types
          /\ Included(tree[m]) /\ tree[m].type = NoAttr
          /\ ~SameKey(tree[n], tree[m])

C6_LastVisitedWins ==
    /\ \A l \in DOMAIN inferred_types : \A e, f \in inferred_types[l] :
          e.key = f.key => e = f
    /\ \A n \in Collected :
          (/\ Included(tree[n])
           /\ \A m \in Collected :
                 Included(tree[m]) /\ SameKey(tree[m], tree[n]) /\ m # n
                     => ExitsBefore(tree, m, n))
          => EntriesAt(inferred_types, tree[n].line, tree[n].text)
                = { [key |-> tree[n].text, value |-> TypeOrMarker(tree[n])] }

C6_Witness ==
    /\ pc = "scope"
    /\ calls = 0
    /\ \E n, m \in 1..Len(tree) :
          /\ n # m /\ Included(tree[n]) /\ Included(tree[m])
          /\ SameKey(tree[n], tree[m])
          /\ TypeOrMarker(tree[n]) # TypeOrMarker(tree[m])

----------------------------------------------------------------------------
(* Properties of pretty_types *)

\* The rows of a text: its pieces between newlines; the empty text has none.
RECURSIVE SplitRows(_, _)
SplitRows(s, row) ==
    IF s = <<>> THEN <<row>>
    ELSE IF Head(s) = 10 THEN <<row>> \o SplitRows(Tail(s), <<>>)
    ELSE SplitRows(Tail(s), Append(row, Head(s)))

Rows(s) == IF s = <<>> THEN <<>> ELSE SplitRows(s, <<>>)

\* s comes before t in lexicographic order
LexBefore(s, t) ==
    \E i \in 1..(Len(t)) :
        /\ i <= Len(s) + 1
        /\ \A j \in 1..(i - 1) : s[j] = t[j]
        /\ (i = Len(s) + 1 \/ s[i] < t[i])

\* the number a string of decimal digits denotes
RECURSIVE DigitsValue(_)
DigitsValue(ds) ==
    IF ds = <<>> THEN 0
    ELSE 10 * DigitsValue(SubSeq(ds, 1, Len(ds) - 1)) + (ds[Len(ds)] - 48)

\* row is `line <N>:` for the number N = l
IsHeaderOf(row, l) ==
    /\ Len(row) >= 7
    /\ SubSeq(row, 1, 5) = <<108, 105, 110, 101, 32>>
    /\ row[Len(row)] = 58
    /\ LET ds == SubSeq(row, 6, Len(row) - 1)
       IN  /\ \A i \in 1..Len(ds) : ds[i] \in 48..57
           /\ (Len(ds) > 1 => ds[1] # 48)
           /\ DigitsValue(ds) = l

\* the number of entries under the lines in S
EntryCount(idx, S) ==
    Cardinality(UNION { { <<k, e>> : e \in idx[k] } : k \in S })

\* C10: the output has one row per line key and per entry; the header of a
\* line comes after the blocks of all smaller line numbers, and the row of
\* an entry comes after the header and the rows of the entries of that line
\* with lexicographically smaller text; an empty index prints as the empty
\* string and the index is left unchanged.
C10_PrettyTypesLayout ==
    /\ [](pc = "printed" =>
            LET idx == inferred_types
                rows == Rows(output)
            IN  /\ Len(rows) = Cardinality(DOMAIN idx) + EntryCount(idx, DOMAIN idx)
                /\ (DOMAIN idx = {} => output = <<>>)
                /\ \A l \in DOMAIN idx :
                      LET below == { k \in DOMAIN idx : k < l }
                          start == 1 + Cardinality(below) + EntryCount(idx, below)
                      IN  /\ IsHeaderOf(rows[start], l)
                          /\ \A e \in idx[l] :
                                LET r == Cardinality({ f \in idx[l] : LexBefore(f.key, e.key) })
                                IN  rows[start + 1 + r]
                                      = <<32, 32>> \o e.key \o <<32, 58, 32>> \o Format(e.value))
    /\ [][pc = "print" => inferred_types' = inferred_types]_vars

C10_Witness ==
    /\ pc = "printed"
    /\ DOMAIN inferred_types = {2, 10}
    /\ Cardinality(inferred_types[2]) = 2
    /\ inferred_types[10] # {}
    /\ Len(Rows(output)) >= 5

----------------------------------------------------------------------------
(* Properties of do_semantic_analysis *)

IsPrefix(s, t) == Len(s) <= Len(t) /\ SubSeq(t, 1, Len(s)) = s

\* n copies of x
Repeat(x, n) == [i \in 1..n |-> x]

\* What ran so far in the current call, by name, a raise left out.
Steps == [i \in 1..Len(trace) |-> trace[i][1]]

Raised == \E i \in 1..Len(trace) : trace[i][1] = "raise"

\* The nodes a traversal was called back for, in order.
VisitsOf(phase) ==
    LET F[i \in 0..Len(trace)] ==
            IF i = 0 THEN <<>>
            ELSE IF trace[i][1] = phase THEN Append(F[i - 1], trace[i][2])
            ELSE F[i - 1]
    IN  F[Len(trace)]

\* A full traversal calls back once for every node of the tree.
IsFullTraversal(visits) ==
    /\ Len(visits) = Len(tree)
    /\ Range(visits) = 1..Len(tree)

\* A complete run: the first phase over every node, the second phase over
\* every node when it is requested, the collector over every node, the
\* scope read.
CompleteRun(fpo) ==
    Repeat("define", Len(tree))
        \o (IF fpo THEN <<>> ELSE Repeat("infer", Len(tree)))
        \o Repeat("collect", Len(tree))
        \o <<"scope">>

\* C1: the steps of a call are always a beginning of the complete run for
\* its flag (first phase, second phase iff first_phase_only is false,
\* collector, scope read, each traversal whole before the next begins), and
\* a call returns its triple only when the run is complete, each traversal
\* having visited every node once.
C1_StrictPhaseOrder ==
    /\ calls > 0 /\ ~Raised => IsPrefix(Steps, CompleteRun(first_phase_only))
    /\ (pc \in {"return", "idle"} /\ calls > 0) =>
          /\ Steps = CompleteRun(first_phase_only)
          /\ IsFullTraversal(VisitsOf("define"))
          /\ IsFullTraversal(VisitsOf("collect"))
          /\ (first_phase_only => VisitsOf("infer") = <<>>)
          /\ (~first_phase_only => IsFullTraversal(VisitsOf("infer")))
    /\ Len(returned) = (IF pc = "idle" THEN calls ELSE calls - 1)

C1_Witness ==
    /\ Len(returned) = 2
    /\ returned[1].first_phase_only /\ ~returned[2].first_phase_only
    /\ Len(tree) = 3

\* C2: a call with first_phase_only = true returns an index in which every
\* entry is the no-type marker.
C2_FirstPhaseOnlyHasNoTypes ==
    \A i \in 1..Len(returned) :
        returned[i].first_phase_only =>
            \A l \in DOMAIN returned[i].inferred_types :
                \A e \in returned[i].inferred_types[l] : e.value = None

C2_Witness ==
    /\ Len(returned) = 2
    /\ ~returned[1].first_phase_only /\ returned[2].first_phase_only
    /\ \E l \in DOMAIN returned[1].inferred_types :
          \E e \in returned[1].inferred_types[l] : e.value \in Types
    /\ DOMAIN returned[2].inferred_types # {}

\* C7: two calls on the same input with first_phase_only = false return
\* the same diagnostics in the same order and the same index; every call
\* starts with an empty log and an unannotated tree, and every collector
\* with an empty index.
C7_RunsAreIndependent ==
    /\ \A i, j \in 1..Len(returned) :
          ~returned[i].first_phase_only /\ ~returned[j].first_phase_only =>
              /\ returned[i].errors = returned[j].errors
              /\ returned[i].inferred_types = returned[j].inferred_types
    /\ (pc = "define" /\ trace = <<>>) =>
          /\ errors = <<>>
          /\ scope = NoAttr
          /\ \A n \in 1..Len(tree) : tree[n].type = NoAttr
    /\ (pc = "collect" /\ VisitsOf("collect") = <<>>) => inferred_types = EmptyIndex

C7_Witness ==
    /\ Len(returned) = 2
    /\ ~returned[1].first_phase_only /\ ~returned[2].first_phase_only
    /\ Len(returned[2].errors) >= 2
    /\ \E l \in DOMAIN returned[2].inferred_types :
          \E e \in returned[2].inferred_types[l] : e.value \in Types

\* C8: within a call the log only grows at its end, and only while an
\* analysis phase is running; the collector traversal, the scope read and
\* the return leave the log and the annotations of the tree as they are,
\* and the log returned is the log as the last requested phase left it.
C8_LogIsAppendOnly ==
    /\ [][calls' = calls => IsPrefix(errors, errors')]_vars
    /\ [][errors' # errors /\ calls' = calls => pc \in {"define", "infer"}]_vars
    /\ [][(pc \in {"new_collector", "collect", "scope", "return"}) =>
            (errors' = errors /\ tree' = tree /\ scope' = scope)]_vars
    /\ [][pc = "return" => returned'[Len(returned')].errors = errors]_vars

C8_Witness ==
    /\ pc = "idle"
    /\ Len(returned) = 1
    /\ \E i, j \in 1..Len(returned[1].errors) :
          /\ i < j
          /\ returned[1].errors[i].phase = "define"
          /\ returned[1].errors[j].phase = "infer"

\* C9: once a phase has raised nothing more runs in the call and the call
\* returns nothing; a call that is back has run completely and returned
\* its triple, with the errors of the analysed program as records of its log.
C9_CompleteOrAbort ==
    /\ [](Raised =>
            /\ pc = "raised"
            /\ trace[Len(trace)][1] = "raise"
            /\ Len(returned) = calls - 1
            /\ VisitsOf("collect") = <<>>
            /\ (Len(VisitsOf("define")) < Len(tree) => VisitsOf("infer") = <<>>))
    /\ []((pc = "idle" /\ calls > 0) =>
            /\ Len(returned) = calls
            /\ Steps = CompleteRun(first_phase_only)
            /\ returned[calls].errors = errors)
    /\ [][pc = "raised" => FALSE]_vars

C9_Witness ==
    /\ pc = "raised"
    /\ Len(VisitsOf("define")) = Len(tree)
    /\ VisitsOf("infer") # <<>>
    /\ errors # <<>>

====
